---- MODULE Spec2Model ----
(***************************************************************************)
(* Model of the YouTube transcript fetcher: src/index.py (cache store,     *)
(* fetcher with language fallback, CLI pipeline) and the text utilities    *)
(* src/utils/chunk_transcript.py and src/utils/format_transcript.py.       *)
(*                                                                         *)
(* Strings are sequences of one-character strings.  Times are integer      *)
(* seconds; segment offsets are integer milliseconds.                      *)
(***************************************************************************)
EXTENDS Integers, Sequences, FiniteSets, TLC

VARIABLES
    files,            \* entry file of each video id in CACHE_DIR
    dirExists,        \* whether CACHE_DIR exists
    now,              \* time.time()
    runs,             \* number of CLI invocations started so far
    proc,             \* per-invocation state of main()
    transcript_text,  \* chunker harness: argument of chunk_transcript
    max_chars,        \* chunker harness: argument of chunk_transcript
    chunks,           \* chunker harness: value returned by chunk_transcript
    chunk_pc,         \* chunker harness: "call" before, "ret" after the call
    util_pc,          \* utility harnesses: "off", "call" before, "ret" after
    ex_input,         \* extractor harness: argument of extract_video_id
    ex_result,        \* extractor harness: what extract_video_id returned or raised
    ex_consulted,     \* extractor harness: URL patterns searched by the call
    fmt_segments,     \* formatter harness: argument of format_transcript
    fmt_result,       \* formatter harness: value returned by format_transcript
    ts_seconds,       \* formatter harness: argument of seconds_to_timestamp
    ts_result         \* formatter harness: value returned by seconds_to_timestamp

vars == <<files, dirExists, now, runs, proc,
          transcript_text, max_chars, chunks, chunk_pc,
          util_pc, ex_input, ex_result, ex_consulted,
          fmt_segments, fmt_result, ts_seconds, ts_result>>

pipeVars == <<files, dirExists, now, runs, proc>>
chunkVars == <<transcript_text, max_chars, chunks, chunk_pc>>
utilVars == <<util_pc, ex_input, ex_result, ex_consulted,
              fmt_segments, fmt_result, ts_seconds, ts_result>>

-----------------------------------------------------------------------------
(* Bounds of the model *)

MaxTextLen == 5      \* longest text handed to the chunker harness
MaxChars == 4        \* largest max_chars handed to the chunker harness
MaxRuns == 2         \* CLI invocations in one behaviour
MaxTicks == 2        \* seconds that pass while two invocations overlap
MaxSegments == 2     \* longest segment list handed to the formatter harness

-----------------------------------------------------------------------------
(* Text helpers: Python str operations on sequences of characters *)

NL == "\n"

None == "None"

Whitespace == {" ", "\t", "\n", "\r", "\f"}

\* n copies of character c
Rep(c, n) == [i \in 1..n |-> c]

\* the k-th smallest element of a finite set of integers
KthSmallest(P, k) == CHOOSE i \in P : Cardinality({j \in P : j <= i}) = k

\* s.split("\n")
Split(s) ==
    LET P == {i \in 1..Len(s) : s[i] = NL}
        n == Cardinality(P)
        cut(k) == IF k = 0 THEN 0
                  ELSE IF k = n + 1 THEN Len(s) + 1
                  ELSE KthSmallest(P, k)
    IN  [k \in 1..(n + 1) |-> SubSeq(s, cut(k - 1) + 1, cut(k) - 1)]

\* "\n".join(lines)
RECURSIVE Join(_)
Join(lines) ==
    IF lines = << >> THEN << >>
    ELSE IF Len(lines) = 1 THEN lines[1]
    ELSE lines[1] \o <<NL>> \o Join(Tail(lines))

\* s.strip()
Strip(s) ==
    LET n == Len(s)
        kept(i) == s[i] \notin Whitespace
    IN  IF \A i \in 1..n : ~kept(i) THEN << >>
        ELSE SubSeq(s, CHOOSE i \in 1..n : kept(i) /\ \A j \in 1..(i - 1) : ~kept(j),
                       CHOOSE i \in 1..n : kept(i) /\ \A j \in (i + 1)..n : ~kept(j))

-----------------------------------------------------------------------------
(* src/utils/chunk_transcript.py *)

DEFAULT_MAX_CHARS == 4000

\* Mutant of ChunkLoop: the line that closes a chunk is dropped instead of
\* opening the next chunk
RECURSIVE ChunkLoopDropsLine(_, _, _, _, _, _)
ChunkLoopDropsLine(lines, i, current_chunk, current_length, acc, max) ==
    IF i > Len(lines)
    THEN IF current_chunk # << >> THEN Append(acc, Join(current_chunk)) ELSE acc
    ELSE LET line == lines[i]
             line_length == Len(line) + 1
             flush == current_length + line_length > max /\ current_chunk # << >>
         IN  IF flush
             THEN ChunkLoopDropsLine(lines, i + 1, << >>, 0,
                                     Append(acc, Join(current_chunk)), max)
             ELSE ChunkLoopDropsLine(lines, i + 1, Append(current_chunk, line),
                                     current_length + line_length, acc, max)

\* Mutant of ChunkLoop: the newline is not counted in line_length
RECURSIVE ChunkLoopNoNewline(_, _, _, _, _, _)
ChunkLoopNoNewline(lines, i, current_chunk, current_length, acc, max) ==
    IF i > Len(lines)
    THEN IF current_chunk # << >> THEN Append(acc, Join(current_chunk)) ELSE acc
    ELSE LET line == lines[i]
             line_length == Len(line)
             flush == current_length + line_length > max /\ current_chunk # << >>
         IN  IF flush
             THEN ChunkLoopNoNewline(lines, i + 1, <<line>>, line_length,
                                     Append(acc, Join(current_chunk)), max)
             ELSE ChunkLoopNoNewline(lines, i + 1, Append(current_chunk, line),
                                     current_length + line_length, acc, max)

\* the for loop of chunk_transcript, from line i on
RECURSIVE ChunkLoop(_, _, _, _, _, _)
ChunkLoop(lines, i, current_chunk, current_length, acc, max) ==
    IF i > Len(lines)
    THEN IF current_chunk # << >> THEN Append(acc, Join(current_chunk)) ELSE acc
    ELSE LET line == lines[i]
             line_length == Len(line) + 1
             flush == current_length + line_length > max /\ current_chunk # << >>
         IN  IF flush
             THEN ChunkLoop(lines, i + 1, <<line>>, line_length,
                            Append(acc, Join(current_chunk)), max)
             ELSE ChunkLoop(lines, i + 1, Append(current_chunk, line),
                            current_length + line_length, acc, max)

chunk_transcript(text, max) ==
    IF text = << >> THEN << >>
    ELSE IF Len(text) <= max THEN <<text>>
    ELSE ChunkLoop(Split(text), 1, << >>, 0, << >>, max)

-----------------------------------------------------------------------------
(* src/utils/format_transcript.py *)

Digit(d) == <<"0", "1", "2", "3", "4", "5", "6", "7", "8", "9">>[d + 1]

\* str(n) for n >= 0
RECURSIVE Decimal(_)
Decimal(n) == IF n < 10 THEN <<Digit(n)>> ELSE Decimal(n \div 10) \o <<Digit(n % 10)>>

\* f"{n:02d}"
Pad2(n) == IF n < 10 THEN <<"0">> \o Decimal(n) ELSE Decimal(n)

\* Mutant of IntSeconds: the offset is rounded to the nearest second
IntSecondsRounded(ms) == (ms + 500) \div 1000

\* int(seconds) for an offset given in milliseconds (seconds >= 0)
IntSeconds(ms) == ms \div 1000

seconds_to_timestamp(ms) ==
    LET total == IntSeconds(ms)
        hrs == total \div 3600
        mins == (total % 3600) \div 60
        secs == total % 60
    IN  IF hrs > 0
        THEN Pad2(hrs) \o <<":">> \o Pad2(mins) \o <<":">> \o Pad2(secs)
        ELSE Pad2(mins) \o <<":">> \o Pad2(secs)

\* the lines list built by the loop of format_transcript
RECURSIVE FormatLines(_)
FormatLines(segments) ==
    IF segments = << >> THEN << >>
    ELSE LET segment == Head(segments)
             timestamp == seconds_to_timestamp(segment.start)
             text == Strip(segment.text)
         IN  (IF text # << >>
              THEN << <<"[">> \o timestamp \o <<"]", " ">> \o text >>
              ELSE << >>) \o FormatLines(Tail(segments))

format_transcript(transcript_segments) ==
    IF transcript_segments = << >> THEN << >>
    ELSE Join(FormatLines(transcript_segments))

-----------------------------------------------------------------------------
(* src/utils/extract_video_id.py *)

IdChars ==
    {"a", "b", "c", "d", "e", "f", "g", "h", "i", "j", "k", "l", "m",
     "n", "o", "p", "q", "r", "s", "t", "u", "v", "w", "x", "y", "z",
     "A", "B", "C", "D", "E", "F", "G", "H", "I", "J", "K", "L", "M",
     "N", "O", "P", "Q", "R", "S", "T", "U", "V", "W", "X", "Y", "Z",
     "0", "1", "2", "3", "4", "5", "6", "7", "8", "9", "_", "-"}

ID_LENGTH == 11

\* the literal lit occurs in s at position i
LitAt(s, i, lit) ==
    /\ i >= 1
    /\ i + Len(lit) - 1 <= Len(s)
    /\ SubSeq(s, i, i + Len(lit) - 1) = lit

\* ([a-zA-Z0-9_-]{11}) matches in s at position i
IdAt(s, i) ==
    /\ i >= 1
    /\ i + ID_LENGTH - 1 <= Len(s)
    /\ \A k \in 0..(ID_LENGTH - 1) : s[i + k] \in IdChars

MinOf(P) == CHOOSE i \in P : \A j \in P : i <= j
MaxOf(P) == CHOOSE i \in P : \A j \in P : j <= i

\* re.match(BARE_ID_PATTERN, text): "$" also matches before one final newline
BareIdMatch(text) ==
    /\ IdAt(text, 1)
    /\ \/ Len(text) = ID_LENGTH
       \/ Len(text) = ID_LENGTH + 1 /\ text[Len(text)] = NL

\* The literal part of each pattern of YOUTUBE_PATTERNS that follows the
\* optional groups (?:https?://)? and (?:www\.)?.  re.search scans every
\* start position and the optional groups may match empty, so a pattern
\* matches exactly when its literal part and its capture group match, and
\* the leftmost match captures at the leftmost such position.
WATCH_LITERAL ==
    <<"y", "o", "u", "t", "u", "b", "e", ".", "c", "o", "m", "/",
      "w", "a", "t", "c", "h", "?">>
V_EQUALS == <<"v", "=">>
SHORT_LITERAL == <<"y", "o", "u", "t", "u", ".", "b", "e", "/">>
SHORTS_LITERAL ==
    <<"y", "o", "u", "t", "u", "b", "e", ".", "c", "o", "m", "/",
      "s", "h", "o", "r", "t", "s", "/">>
EMBED_LITERAL ==
    <<"y", "o", "u", "t", "u", "b", "e", ".", "c", "o", "m", "/",
      "e", "m", "b", "e", "d", "/">>
LIVE_LITERAL ==
    <<"y", "o", "u", "t", "u", "b", "e", ".", "c", "o", "m", "/",
      "l", "i", "v", "e", "/">>

NoMatch == [found |-> FALSE, group |-> << >>]

\* re.search of pattern 1: youtube\.com/watch\?.*v=(ID); ".*" is greedy and
\* does not cross a newline
WatchSearch(s) ==
    LET vAfter(i) == {j \in (i + Len(WATCH_LITERAL))..Len(s) :
                         /\ LitAt(s, j, V_EQUALS)
                         /\ IdAt(s, j + Len(V_EQUALS))
                         /\ \A k \in (i + Len(WATCH_LITERAL))..(j - 1) : s[k] # NL}
        starts == {i \in 1..Len(s) : LitAt(s, i, WATCH_LITERAL) /\ vAfter(i) # {}}
    IN  IF starts = {} THEN NoMatch
        ELSE LET j == MaxOf(vAfter(MinOf(starts)))
             IN  [found |-> TRUE,
                  group |-> SubSeq(s, j + Len(V_EQUALS),
                                   j + Len(V_EQUALS) + ID_LENGTH - 1)]

\* re.search of patterns 2..5: literal followed by (ID)
PathSearch(s, lit) ==
    LET starts == {i \in 1..Len(s) : LitAt(s, i, lit) /\ IdAt(s, i + Len(lit))}
    IN  IF starts = {} THEN NoMatch
        ELSE LET j == MinOf(starts) + Len(lit)
             IN  [found |-> TRUE, group |-> SubSeq(s, j, j + ID_LENGTH - 1)]

\* re.search(YOUTUBE_PATTERNS[k], s)
YOUTUBE_PATTERNS(k, s) ==
    CASE k = 1 -> WatchSearch(s)
      [] k = 2 -> PathSearch(s, SHORT_LITERAL)
      [] k = 3 -> PathSearch(s, SHORTS_LITERAL)
      [] k = 4 -> PathSearch(s, EMBED_LITERAL)
      [] k = 5 -> PathSearch(s, LIVE_LITERAL)

NUM_PATTERNS == 5

\* Result of a Python call: the exception raised ("None" when it returns),
\* the exception's message, and the value returned.
Returns(v) == [raised |-> "None", msg |-> "", value |-> v]
Raises(e, m) == [raised |-> e, msg |-> m, value |-> << >>]

extract_video_id(url_or_id) ==
    LET text == Strip(url_or_id)
        hits == {k \in 1..NUM_PATTERNS : YOUTUBE_PATTERNS(k, text).found}
    IN  IF BareIdMatch(text) THEN Returns(text)
        ELSE IF hits # {} THEN Returns(YOUTUBE_PATTERNS(MinOf(hits), text).group)
        ELSE Raises("ValueError", "Could not extract a YouTube video ID")

-----------------------------------------------------------------------------
(* Python values that reach main(): the result of json.load and of the     *)
(* provider.  A list of caption segments is a sequence of records          *)
(* [text, start, duration].                                                *)

\* t names the type; n holds a number, s a string, l a list, d a dict (a
\* function from its keys to values)
PyNone == [t |-> "none", n |-> 0, s |-> << >>, l |-> << >>, d |-> << >>]
PyNum(n) == [PyNone EXCEPT !.t = "num", !.n = n]
PyStr(s) == [PyNone EXCEPT !.t = "str", !.s = s]
PyList(l) == [PyNone EXCEPT !.t = "list", !.l = l]
PyDict(d) == [PyNone EXCEPT !.t = "dict", !.d = d]

\* x.get(key, default) on a dict
DictGet(x, key, default) == IF key \in DOMAIN x.d THEN x.d[key] ELSE default

\* bool(x)
Truthy(x) ==
    CASE x.t = "none" -> FALSE
      [] x.t = "num" -> x.n # 0
      [] x.t = "str" -> x.s # << >>
      [] x.t = "list" -> x.l # << >>
      [] x.t = "dict" -> DOMAIN x.d # {}

-----------------------------------------------------------------------------
(* The cache store of src/index.py *)

CACHE_TTL_SECONDS == 7 * 24 * 3600

\* Content of an entry file.  "binary": bytes that are not UTF-8; "text"
\* with json = FALSE: text that is no JSON document (an empty or truncated
\* file among them); with json = TRUE: a JSON document, an object being the
\* sequence of its members as written.
ABSENT == [kind |-> "absent", json |-> FALSE, object |-> FALSE,
           members |-> << >>, value |-> PyNone]
Binary == [ABSENT EXCEPT !.kind = "binary"]
BadText == [ABSENT EXCEPT !.kind = "text"]
JsonText(value) == [ABSENT EXCEPT !.kind = "text", !.json = TRUE, !.value = value]
JsonObject(members) == [ABSENT EXCEPT !.kind = "text", !.json = TRUE, !.object = TRUE,
                                      !.members = members]

\* json.dump(obj, f) of the dict literal of save_to_cache: its members in
\* insertion order
JsonDump(video_id, cached_at, segments) ==
    JsonObject(<< <<"video_id", PyStr(video_id)>>,
                  <<"cached_at", PyNum(cached_at)>>,
                  <<"segments", PyList(segments)>> >>)

\* the dict json.load builds from an object's members: a repeated key keeps
\* its last value
ObjectToDict(members) ==
    LET keys == {members[i][1] : i \in DOMAIN members}
        last(k) == MaxOf({i \in DOMAIN members : members[i][1] = k})
    IN  PyDict([k \in keys |-> members[last(k)][2]])

\* json.load(f) on a file opened with encoding="utf-8"
JsonLoad(content) ==
    IF content.kind = "binary" THEN Raises("UnicodeDecodeError", "invalid start byte")
    ELSE IF ~content.json THEN Raises("JSONDecodeError", "Expecting value")
    ELSE IF content.object THEN Returns(ObjectToDict(content.members))
    ELSE Returns(content.value)

\* get_cached_transcript up to the expiry test (lines 62-72 and 76-78):
\* what it does with the entry file's content at time t when open/read
\* fails (io_error) or not.  expired = TRUE: os.remove is next.
GetOutcome(r, expired) == [raised |-> r.raised, msg |-> r.msg, value |-> r.value,
                           expired |-> expired]

\* Mutant of get_cached_transcript: the expiry test is >= instead of >
get_cached_transcript_expires_at_ttl(content, t, io_error) ==
    IF content.kind = "absent" THEN GetOutcome(Returns(PyNone), FALSE)
    ELSE IF io_error THEN GetOutcome(Returns(PyNone), FALSE)
    ELSE LET loaded == JsonLoad(content)
             cached == loaded.value
             cached_at == DictGet(cached, "cached_at", PyNum(0))
         IN  IF loaded.raised = "JSONDecodeError" THEN GetOutcome(Returns(PyNone), FALSE)
             ELSE IF loaded.raised # "None" THEN GetOutcome(loaded, FALSE)
             ELSE IF cached.t # "dict"
             THEN GetOutcome(Raises("AttributeError", "object has no attribute 'get'"), FALSE)
             ELSE IF cached_at.t # "num"
             THEN GetOutcome(Raises("TypeError", "unsupported operand type(s) for -"), FALSE)
             ELSE IF t - cached_at.n >= CACHE_TTL_SECONDS
             THEN GetOutcome(Returns(PyNone), TRUE)
             ELSE GetOutcome(Returns(DictGet(cached, "segments", PyNone)), FALSE)

\* Mutant of get_cached_transcript: an entry that is no JSON document is
\* removed like an expired one
get_cached_transcript_removes_corrupt(content, t, io_error) ==
    IF content.kind = "absent" THEN GetOutcome(Returns(PyNone), FALSE)
    ELSE IF io_error THEN GetOutcome(Returns(PyNone), FALSE)
    ELSE LET loaded == JsonLoad(content)
             cached == loaded.value
             cached_at == DictGet(cached, "cached_at", PyNum(0))
         IN  IF loaded.raised = "JSONDecodeError" THEN GetOutcome(Returns(PyNone), TRUE)
             ELSE IF loaded.raised # "None" THEN GetOutcome(loaded, FALSE)
             ELSE IF cached.t # "dict"
             THEN GetOutcome(Raises("AttributeError", "object has no attribute 'get'"), FALSE)
             ELSE IF cached_at.t # "num"
             THEN GetOutcome(Raises("TypeError", "unsupported operand type(s) for -"), FALSE)
             ELSE IF t - cached_at.n > CACHE_TTL_SECONDS
             THEN GetOutcome(Returns(PyNone), TRUE)
             ELSE GetOutcome(Returns(DictGet(cached, "segments", PyNone)), FALSE)

\* Mutant of get_cached_transcript: of a stored list of several segments only
\* the first is returned
get_cached_transcript_returns_head(content, t, io_error) ==
    IF content.kind = "absent" THEN GetOutcome(Returns(PyNone), FALSE)
    ELSE IF io_error THEN GetOutcome(Returns(PyNone), FALSE)
    ELSE LET loaded == JsonLoad(content)
             cached == loaded.value
             cached_at == DictGet(cached, "cached_at", PyNum(0))
             segments == DictGet(cached, "segments", PyNone)
         IN  IF loaded.raised = "JSONDecodeError" THEN GetOutcome(Returns(PyNone), FALSE)
             ELSE IF loaded.raised # "None" THEN GetOutcome(loaded, FALSE)
             ELSE IF cached.t # "dict"
             THEN GetOutcome(Raises("AttributeError", "object has no attribute 'get'"), FALSE)
             ELSE IF cached_at.t # "num"
             THEN GetOutcome(Raises("TypeError", "unsupported operand type(s) for -"), FALSE)
             ELSE IF t - cached_at.n > CACHE_TTL_SECONDS
             THEN GetOutcome(Returns(PyNone), TRUE)
             ELSE IF segments.t = "list" /\ Len(segments.l) > 1
             THEN GetOutcome(Returns(PyList(<<segments.l[1]>>)), FALSE)
             ELSE GetOutcome(Returns(segments), FALSE)

get_cached_transcript(content, t, io_error) ==
    IF content.kind = "absent" THEN GetOutcome(Returns(PyNone), FALSE)
    ELSE IF io_error THEN GetOutcome(Returns(PyNone), FALSE)
    ELSE LET loaded == JsonLoad(content)
             cached == loaded.value
             cached_at == DictGet(cached, "cached_at", PyNum(0))
         IN  IF loaded.raised = "JSONDecodeError" THEN GetOutcome(Returns(PyNone), FALSE)
             ELSE IF loaded.raised # "None" THEN GetOutcome(loaded, FALSE)
             ELSE IF cached.t # "dict"
             THEN GetOutcome(Raises("AttributeError", "object has no attribute 'get'"), FALSE)
             ELSE IF cached_at.t # "num"
             THEN GetOutcome(Raises("TypeError", "unsupported operand type(s) for -"), FALSE)
             ELSE IF t - cached_at.n > CACHE_TTL_SECONDS
             THEN GetOutcome(Returns(PyNone), TRUE)
             ELSE GetOutcome(Returns(DictGet(cached, "segments", PyNone)), FALSE)

\* Mutant of save_to_cache: the segments are written under another key
save_to_cache_other_key(video_id, segments, t) ==
    JsonObject(<< <<"video_id", PyStr(video_id)>>,
                  <<"cached_at", PyNum(t)>>,
                  <<"transcript", PyList(segments)>> >>)

\* what save_to_cache leaves in the entry file when the write succeeds
save_to_cache(video_id, segments, t) == JsonDump(video_id, t, segments)

\* What is left of longer content when a shorter entry is written over its
\* beginning: n blocks of bytes that are no JSON document (a complete
\* document followed by the tail of another one)
Torn(n) == [BadText EXCEPT !.value = PyNum(n)]

\* Length in blocks of what json.dump writes for an entry.  It grows with
\* the segments, and with the digits repr(time.time()) needs, which vary
\* from one instant to the next: the model lets them vary with the parity
\* of the second.
SerialSize(cached_at, segments) == 1 + (cached_at % 2) + Len(segments)

\* Length in blocks of an entry file written by save_to_cache; 0 for a file
\* just truncated
Size(content) ==
    IF content.kind = "text" /\ content.json /\ content.object
       /\ {"cached_at", "segments"} \subseteq DOMAIN ObjectToDict(content.members).d
    THEN LET d == ObjectToDict(content.members).d
         IN  SerialSize(d["cached_at"].n, d["segments"].l)
    ELSE IF content.kind = "text" /\ ~content.json THEN content.value.n
    ELSE 0

\* write(2) of a whole entry at offset 0 of a file object opened with "w":
\* bytes of the file beyond the entry's length stay as they are
WriteAt0(current, entry) ==
    IF Size(current) <= Size(entry) THEN entry ELSE Torn(Size(current))

-----------------------------------------------------------------------------
(* The captions provider and fetch_transcript of src/index.py *)

\* Signals of the provider (exception classes of youtube_transcript_api);
\* "OtherError" stands for any exception the code names nowhere.
Signals == {"NoTranscriptFound", "TranscriptsDisabled", "VideoUnavailable",
            "InvalidVideoId", "RequestBlocked", "IpBlocked", "OtherError"}

Ok(data) == [sig |-> "ok", data |-> data]
Err(e) == [sig |-> e, data |-> << >>]

MSG_DISABLED == "Transcripts are disabled for video"
MSG_UNAVAILABLE == "Video is unavailable"
MSG_INVALID_ID == "is not a valid YouTube video ID"
MSG_BLOCKED == "YouTube is blocking requests right now"
MSG_NO_CAPTIONS == "Could not fetch any transcript for video"

FetchOutcome(r, calls, fallback) ==
    [raised |-> r.raised, msg |-> r.msg, value |-> r.value,
     calls |-> calls,        \* provider operations invoked, in order
     fallback |-> fallback]  \* control reaches attempt 2

\* Mutant of fetch_transcript_attempt1: an unavailable video falls through
\* to attempt 2 like a missing language
fetch_transcript_attempt1_falls_through(english) ==
    CASE english.sig = "ok" ->
            FetchOutcome(Returns(english.data), <<"fetch_en">>, FALSE)
      [] english.sig \in {"NoTranscriptFound", "VideoUnavailable"} ->
            FetchOutcome(Returns(<< >>), <<"fetch_en">>, TRUE)
      [] english.sig = "TranscriptsDisabled" ->
            FetchOutcome(Raises("RuntimeError", MSG_DISABLED), <<"fetch_en">>, FALSE)
      [] english.sig = "InvalidVideoId" ->
            FetchOutcome(Raises("RuntimeError", MSG_INVALID_ID), <<"fetch_en">>, FALSE)
      [] english.sig \in {"RequestBlocked", "IpBlocked"} ->
            FetchOutcome(Raises("RuntimeError", MSG_BLOCKED), <<"fetch_en">>, FALSE)
      [] OTHER ->
            FetchOutcome(Raises(english.sig, "provider error"), <<"fetch_en">>, FALSE)

\* Attempt 1 of fetch_transcript (lines 110-137): english is the answer of
\* api.fetch(video_id, languages=["en"])
fetch_transcript_attempt1(english) ==
    CASE english.sig = "ok" ->
            FetchOutcome(Returns(english.data), <<"fetch_en">>, FALSE)
      [] english.sig = "NoTranscriptFound" ->
            FetchOutcome(Returns(<< >>), <<"fetch_en">>, TRUE)
      [] english.sig = "TranscriptsDisabled" ->
            FetchOutcome(Raises("RuntimeError", MSG_DISABLED), <<"fetch_en">>, FALSE)
      [] english.sig = "VideoUnavailable" ->
            FetchOutcome(Raises("RuntimeError", MSG_UNAVAILABLE), <<"fetch_en">>, FALSE)
      [] english.sig = "InvalidVideoId" ->
            FetchOutcome(Raises("RuntimeError", MSG_INVALID_ID), <<"fetch_en">>, FALSE)
      [] english.sig \in {"RequestBlocked", "IpBlocked"} ->
            FetchOutcome(Raises("RuntimeError", MSG_BLOCKED), <<"fetch_en">>, FALSE)
      [] OTHER ->
            FetchOutcome(Raises(english.sig, "provider error"), <<"fetch_en">>, FALSE)

\* Mutant of fetch_transcript_attempt2: a transcript whose fetch fails is
\* skipped and the next one listed is tried
fetch_transcript_attempt2_tries_next(listing) ==
    LET oks == IF listing.sig = "ok"
               THEN {i \in DOMAIN listing.data : listing.data[i].sig = "ok"}
               ELSE {}
    IN  IF listing.sig # "ok" \/ listing.data = << >>
        THEN FetchOutcome(Raises("RuntimeError", MSG_NO_CAPTIONS), <<"list">>, FALSE)
        ELSE IF oks = {}
        THEN FetchOutcome(Raises("RuntimeError", MSG_NO_CAPTIONS),
                          <<"list">> \o [i \in DOMAIN listing.data |-> "fetch_1"], FALSE)
        ELSE FetchOutcome(Returns(listing.data[MinOf(oks)].data),
                          <<"list">> \o [i \in 1..MinOf(oks) |-> "fetch_1"], FALSE)

\* Attempt 2 of fetch_transcript (lines 139-152): listing is the answer of
\* api.list(video_id), a sequence of transcripts each holding the answer
\* its fetch() would give
fetch_transcript_attempt2(listing) ==
    IF listing.sig # "ok"
    THEN FetchOutcome(Raises("RuntimeError", MSG_NO_CAPTIONS), <<"list">>, FALSE)
    ELSE IF listing.data = << >>
    THEN FetchOutcome(Raises("RuntimeError", MSG_NO_CAPTIONS), <<"list">>, FALSE)
    ELSE IF listing.data[1].sig = "ok"
    THEN FetchOutcome(Returns(listing.data[1].data), <<"list", "fetch_1">>, FALSE)
    ELSE FetchOutcome(Raises("RuntimeError", MSG_NO_CAPTIONS), <<"list", "fetch_1">>, FALSE)

-----------------------------------------------------------------------------
(* The environment: command lines, videos, provider answers, entry files *)

MaxTranscripts == 2  \* longest listing the provider answers with

ID1 == <<"d", "Q", "w", "4", "w", "9", "W", "g", "X", "c", "Q">>
ID2 == <<"a", "_", "c", "-", "E", "F", "1", "2", "3", "4", "5">>
VideoIds == {ID1, ID2}

HTTPS == <<"h", "t", "t", "p", "s", ":", "/", "/">>
WWW == <<"w", "w", "w", ".">>

NoArg == [given |-> FALSE, s |-> << >>]
Arg(s) == [given |-> TRUE, s |-> s]

\* sys.argv[1:] of the invocations
Argvs ==
    {NoArg,
     Arg(ID1),
     Arg(<<" ">> \o HTTPS \o SHORT_LITERAL \o ID1 \o <<"?", "t", "=", "5", "\n">>),
     Arg(HTTPS \o WWW \o WATCH_LITERAL \o <<"t", "=", "1", "&">> \o V_EQUALS \o ID2),
     Arg(<<"a", "b", "c">>),
     Arg(HTTPS \o SHORT_LITERAL)}

Seg(text, start, duration) == [text |-> text, start |-> start, duration |-> duration]

SegHi == Seg(<<"h", "i">>, 65000, 2000)
SegYo == Seg(<<" ", "y", "o", " ">>, 3661999, 1000)
SegBlank == Seg(<<" ", "\t">>, 0, 1000)
LongLine == DEFAULT_MAX_CHARS \div 2
LongSegs == <<Seg(Rep("x", LongLine), 0, 9000), Seg(Rep("y", LongLine), 9000, 9000)>>

EnglishSegLists == {<< >>, <<SegHi>>, <<SegBlank, SegBlank>>, LongSegs}

\* what the provider may answer for a video: ID1 is a video of any kind,
\* ID2 one that has English captions or none at all
EnglishAnswers(id) ==
    IF id = ID1 THEN {Ok(l) : l \in EnglishSegLists} \cup {Err(e) : e \in Signals}
    ELSE {Ok(<<SegYo>>), Err("NoTranscriptFound")}

TranscriptAnswers == {Ok(<<SegYo>>), Ok(<<SegHi, SegYo>>), Err("RequestBlocked"),
                      Err("VideoUnavailable"), Err("OtherError")}

SeqsUpTo(S, n) == UNION {[1..k -> S] : k \in 0..n}

Listings(id) ==
    IF id = ID1 THEN {Ok(l) : l \in SeqsUpTo(TranscriptAnswers, MaxTranscripts)}
                         \cup {Err(e) : e \in Signals}
    ELSE {Ok(<< >>)}

\* time.time() at the first invocation
Epoch == 3 * CACHE_TTL_SECONDS

\* time between the end of an invocation and the start of the next
Elapsed == {0, CACHE_TTL_SECONDS, CACHE_TTL_SECONDS + 1}

\* Entry files that may exist before the first invocation
InitContents ==
    {ABSENT, Binary, BadText,
     JsonText(PyList(<< >>)),
     JsonObject(<< >>),
     JsonObject(<< <<"cached_at", PyStr(<<"x">>)>>, <<"segments", PyList(<<SegHi>>)>> >>),
     JsonObject(<< <<"cached_at", PyNum(Epoch)>>, <<"segments", PyNum(5)>> >>),
     JsonObject(<< <<"cached_at", PyNum(Epoch)>> >>),
     JsonDump(ID1, Epoch - 1, <<SegYo>>),
     JsonDump(ID1, Epoch - CACHE_TTL_SECONDS, <<SegYo>>),
     JsonDump(ID1, Epoch - CACHE_TTL_SECONDS - 1, <<SegYo>>)}

-----------------------------------------------------------------------------------------------------------------------------------------------------
(* main() of src/index.py, one invocation per process *)

Procs == {1, 2}

NotCalled == "not called"
NotAsked == Err("not asked")
NotListed == [sig |-> "not asked", n |-> 0, first |-> NotAsked]

NoOutput == [shape |-> "none", text |-> << >>, video_id |-> << >>,
             total_chunks |-> 0, chunks |-> << >>]
PlainText(text) == [shape |-> "text", text |-> text, video_id |-> << >>,
                    total_chunks |-> 0, chunks |-> << >>]
ChunkBundle(video_id, cs) == [shape |-> "json", text |-> << >>, video_id |-> video_id,
                              total_chunks |-> Len(cs), chunks |-> cs]

NoMessage == [kind |-> "none", msg |-> ""]
Message(kind, msg) == [kind |-> kind, msg |-> msg]

\* The state of an invocation.  Besides the variables of main() it records
\* what the invocation met and did, for the properties to refer to.
NoEarlier ==
    [wrote |-> FALSE, video_id |-> << >>, at |-> 0,
     stdout |-> NoOutput, stderr |-> NoMessage, exit |-> -1]

Idle ==
    [pc |-> "idle", video_id |-> << >>,
     transcript_segments |-> PyNone,
     input |-> "none",      \* "ok", "missing" (no argument) or "ValueError"
     trace |-> << >>,       \* cache and provider operations invoked, in order
     faults |-> {},         \* file operations that failed with an I/O error
     read |-> ABSENT,       \* entry file content get_cached_transcript met
     read_at |-> 0,         \* time of that read
     got |-> NotCalled,     \* "hit", "miss" or the exception get raised
     english |-> NotAsked,  \* answer of the English request
     listing |-> NotListed, \* answer of the list operation
     fetched |-> NotCalled, \* "None" or the exception fetch_transcript raised
     fetched_msg |-> "",
     fetched_segments |-> << >>,
     put |-> NotCalled,     \* "written", "swallowed" or the exception raised
     put_over |-> "none",   \* kind of entry the put replaced
     handle |-> "closed",   \* the file object of save_to_cache: "open", or
                            \* "unlinked" once the file it refers to was removed
     earlier |-> NoEarlier, \* what the invocation before this one printed,
                            \* if it stored the transcript it fetched
     stdout |-> NoOutput, stderr |-> NoMessage, exit |-> -1]

\* the entry file holds a CacheEntry: an object with a number cached_at and
\* a list segments
WellFormed(content) ==
    /\ content.kind = "text" /\ content.json /\ content.object
    /\ LET d == ObjectToDict(content.members).d
       IN  /\ {"cached_at", "segments"} \subseteq DOMAIN d
           /\ d["cached_at"].t = "num"
           /\ d["segments"].t = "list"

CachedAt(content) == ObjectToDict(content.members).d["cached_at"].n
StoredSegments(content) == ObjectToDict(content.members).d["segments"]

\* none, corrupt, expired or valid: the entry as a reader would find it at time t
EntryKind(content, t) ==
    IF content = ABSENT THEN "none"
    ELSE IF ~WellFormed(content) THEN "corrupt"
    ELSE IF t - CachedAt(content) > CACHE_TTL_SECONDS THEN "expired"
    ELSE "valid"

\* sys.exit(1) after a message on standard error
Exit1(st, kind, msg) ==
    [st EXCEPT !.pc = "done", !.stderr = Message(kind, msg), !.exit = 1]

\* the handlers of lines 180-186 for an exception r raised inside the try
Handle(st, r) ==
    IF r.raised = "RuntimeError" THEN Exit1(st, "error", r.msg)
    ELSE Exit1(st, "unexpected", r.raised)

\* lines 159-171: argument check and extract_video_id; the invocation starts
\* some time after the previous one ended
\* what an invocation that has ended leaves for the next one to be compared
\* with: its output and exit code, if its save_to_cache wrote the entry
Earlier(st, t) ==
    IF st.pc = "done" /\ st.put = "written"
    THEN [wrote |-> TRUE, video_id |-> st.video_id, at |-> t,
          stdout |-> st.stdout, stderr |-> st.stderr, exit |-> st.exit]
    ELSE NoEarlier

Start(p) ==
    /\ proc[p].pc \in {"idle", "done"}
    /\ runs < MaxRuns
    /\ runs' = runs + 1
    /\ \E a \in Argvs :
         LET r == extract_video_id(a.s)
             fresh == [Idle EXCEPT !.earlier = Earlier(proc[p], now)]
         IN  proc' = [proc EXCEPT ![p] =
                 IF ~a.given
                 THEN Exit1([fresh EXCEPT !.input = "missing"], "usage",
                            "No video ID or URL provided.")
                 ELSE IF r.raised = "ValueError"
                 THEN Exit1([fresh EXCEPT !.input = r.raised], "error", r.msg)
                 ELSE [fresh EXCEPT !.pc = "get", !.input = "ok", !.video_id = r.value]]
    /\ \E d \in (IF runs = 0 THEN {0} ELSE Elapsed) : now' = now + d
    /\ UNCHANGED <<files, dirExists, chunkVars, utilVars>>

\* Mutant of AfterGet: the provider is asked even after a hit
AfterGetAlwaysFetches(st, r) ==
    IF r.raised # "None" THEN Handle([st EXCEPT !.got = r.raised], r)
    ELSE IF r.value = PyNone THEN [st EXCEPT !.got = "miss", !.pc = "fetch"]
    ELSE [st EXCEPT !.got = "hit", !.pc = "fetch", !.transcript_segments = r.value]

\* line 177: a hit goes on to format, a miss to the provider
AfterGet(st, r) ==
    IF r.raised # "None" THEN Handle([st EXCEPT !.got = r.raised], r)
    ELSE IF r.value = PyNone THEN [st EXCEPT !.got = "miss", !.pc = "fetch"]
    ELSE [st EXCEPT !.got = "hit", !.pc = "output", !.transcript_segments = r.value]

\* line 176, get_cached_transcript lines 62-72 and 76-78
GetRead(p) ==
    /\ proc[p].pc = "get"
    /\ \E io_error \in BOOLEAN :
         LET content == files[proc[p].video_id]
             failed == io_error /\ content # ABSENT
             st == [proc[p] EXCEPT !.trace = Append(@, "get"),
                                   !.read = content,
                                   !.read_at = now,
                                   !.faults = IF failed THEN @ \cup {"read"} ELSE @]
             r == get_cached_transcript(content, now, failed)
         IN  proc' = [proc EXCEPT ![p] =
                 IF r.expired THEN [st EXCEPT !.pc = "get_remove"]
                 ELSE AfterGet(st, r)]
    /\ UNCHANGED <<files, dirExists, now, runs, chunkVars, utilVars>>

\* get_cached_transcript lines 73-74 and 77-78: os.remove, which may fail.
\* A file object another invocation holds open on the removed file then
\* refers to a file that has no name any more.
GetRemove(p) ==
    /\ proc[p].pc = "get_remove"
    /\ \E io_error \in BOOLEAN :
         LET id == proc[p].video_id
             failed == io_error \/ files[id] = ABSENT
             mine == AfterGet([proc[p] EXCEPT
                                  !.faults = IF failed THEN @ \cup {"remove"} ELSE @],
                              Returns(PyNone))
         IN  /\ files' = IF failed THEN files ELSE [files EXCEPT ![id] = ABSENT]
             /\ proc' = [q \in Procs |->
                    IF q = p THEN mine
                    ELSE IF ~failed /\ proc[q].video_id = id /\ proc[q].handle = "open"
                    THEN [proc[q] EXCEPT !.handle = "unlinked"]
                    ELSE proc[q]]
    /\ UNCHANGED <<dirExists, now, runs, chunkVars, utilVars>>

\* how main goes on when fetch_transcript ends with r
\* Mutant of AfterFetch: an empty list of segments is not stored
AfterFetchSkipsEmpty(st, r) ==
    LET st1 == [st EXCEPT !.fetched = r.raised, !.fetched_msg = r.msg]
    IN  IF r.raised # "None" THEN Handle(st1, r)
        ELSE [st1 EXCEPT !.pc = IF r.value = << >> THEN "output" ELSE "put_mkdir",
                         !.fetched_segments = r.value,
                         !.transcript_segments = PyList(r.value)]

\* lines 178-179: the fetched segments go on to save_to_cache; an exception
\* of fetch_transcript goes to the handlers of lines 180-186
AfterFetch(st, r) ==
    LET st1 == [st EXCEPT !.fetched = r.raised, !.fetched_msg = r.msg]
    IN  IF r.raised # "None" THEN Handle(st1, r)
        ELSE [st1 EXCEPT !.pc = "put_mkdir",
                         !.fetched_segments = r.value,
                         !.transcript_segments = PyList(r.value)]

\* line 178, fetch_transcript lines 110-137: the English request
FetchEnglish(p) ==
    /\ proc[p].pc = "fetch"
    /\ \E english \in EnglishAnswers(proc[p].video_id) :
         LET r == fetch_transcript_attempt1(english)
             st == [proc[p] EXCEPT !.trace = @ \o r.calls, !.english = english]
         IN  proc' = [proc EXCEPT ![p] =
                 IF r.fallback THEN [st EXCEPT !.pc = "fetch_list"]
                 ELSE AfterFetch(st, r)]
    /\ UNCHANGED <<files, dirExists, now, runs, chunkVars, utilVars>>

\* what an invocation keeps of a listing: its signal, its length and the
\* answer of its first transcript
Listed(listing) ==
    [sig |-> listing.sig, n |-> Len(listing.data),
     first |-> IF listing.data = << >> THEN NotAsked ELSE listing.data[1]]

\* fetch_transcript lines 139-152: the listing and its first transcript
FetchList(p) ==
    /\ proc[p].pc = "fetch_list"
    /\ \E listing \in Listings(proc[p].video_id) :
         LET r == fetch_transcript_attempt2(listing)
             st == [proc[p] EXCEPT !.trace = @ \o r.calls, !.listing = Listed(listing)]
         IN  proc' = [proc EXCEPT ![p] = AfterFetch(st, r)]
    /\ UNCHANGED <<files, dirExists, now, runs, chunkVars, utilVars>>

\* line 179, save_to_cache line 83: os.makedirs outside the try
PutMkdir(p) ==
    /\ proc[p].pc = "put_mkdir"
    /\ \E io_error \in BOOLEAN :
         LET st == [proc[p] EXCEPT !.trace = Append(@, "put")]
         IN  IF io_error /\ ~dirExists
             THEN /\ proc' = [proc EXCEPT ![p] =
                          Handle([st EXCEPT !.put = "OSError", !.faults = @ \cup {"mkdir"}],
                                 Raises("OSError", "makedirs"))]
                  /\ dirExists' = dirExists
             ELSE /\ proc' = [proc EXCEPT ![p] = [st EXCEPT !.pc = "put_open"]]
                  /\ dirExists' = TRUE
    /\ UNCHANGED <<files, now, runs, chunkVars, utilVars>>

\* save_to_cache line 86: open(cache_file, "w") truncates the file
PutOpen(p) ==
    /\ proc[p].pc = "put_open"
    /\ \E io_error \in BOOLEAN :
         LET id == proc[p].video_id
         IN  IF io_error
             THEN /\ proc' = [proc EXCEPT ![p].put = "swallowed", ![p].pc = "output",
                                          ![p].faults = @ \cup {"open"}]
                  /\ UNCHANGED files
             ELSE /\ proc' = [proc EXCEPT ![p].pc = "put_write",
                                          ![p].handle = "open",
                                          ![p].put_over = EntryKind(files[id], now)]
                  /\ files' = [files EXCEPT ![id] = BadText]
    /\ UNCHANGED <<dirExists, now, runs, chunkVars, utilVars>>

\* save_to_cache lines 87-89: json.dump and close, which writes the entry
\* at the start of the file the file object refers to; a failure leaves the
\* file truncated
PutWrite(p) ==
    /\ proc[p].pc = "put_write"
    /\ \E io_error \in BOOLEAN :
         LET id == proc[p].video_id
             segments == proc[p].transcript_segments.l
             named == proc[p].handle = "open"
         IN  IF io_error
             THEN /\ proc' = [proc EXCEPT ![p].put = "swallowed", ![p].pc = "output",
                                          ![p].handle = "closed",
                                          ![p].faults = @ \cup {"write"}]
                  /\ files' = IF named THEN [files EXCEPT ![id] = BadText] ELSE files
             ELSE /\ proc' = [proc EXCEPT ![p].put = "written", ![p].pc = "output",
                                          ![p].handle = "closed"]
                  /\ files' = IF named
                              THEN [files EXCEPT ![id] =
                                       WriteAt0(@, save_to_cache(id, segments, now))]
                              ELSE files
    /\ UNCHANGED <<dirExists, now, runs, chunkVars, utilVars>>

\* format_transcript applied to whatever main holds in transcript_segments
FormatCall(x) ==
    IF ~Truthy(x) THEN Returns(<< >>)
    ELSE IF x.t = "list" THEN Returns(format_transcript(x.l))
    ELSE Raises("TypeError", "object is not iterable")

\* Mutant of main_output: the test for an empty transcript is missing
main_output_prints_empty(st) ==
    LET formatted == FormatCall(st.transcript_segments)
        cs == chunk_transcript(formatted.value, DEFAULT_MAX_CHARS)
    IN  IF formatted.raised # "None" THEN Exit1(st, "traceback", formatted.raised)
        ELSE IF Len(cs) = 1
        THEN [st EXCEPT !.pc = "done", !.exit = 0, !.stdout = PlainText(cs[1])]
        ELSE [st EXCEPT !.pc = "done", !.exit = 0,
                        !.stdout = ChunkBundle(st.video_id, cs)]

\* lines 189-210: format, chunk and print; an exception that nothing
\* catches ends the process with a traceback and exit code 1
main_output(st) ==
    LET formatted == FormatCall(st.transcript_segments)
        cs == chunk_transcript(formatted.value, DEFAULT_MAX_CHARS)
    IN  IF formatted.raised # "None" THEN Exit1(st, "traceback", formatted.raised)
        ELSE IF formatted.value = << >>
        THEN Exit1(st, "error", "Transcript was fetched but appears to be empty.")
        ELSE IF Len(cs) = 1
        THEN [st EXCEPT !.pc = "done", !.exit = 0, !.stdout = PlainText(cs[1])]
        ELSE [st EXCEPT !.pc = "done", !.exit = 0,
                        !.stdout = ChunkBundle(st.video_id, cs)]

Output(p) ==
    /\ proc[p].pc = "output"
    /\ proc' = [proc EXCEPT ![p] = main_output(@)]
    /\ UNCHANGED <<files, dirExists, now, runs, chunkVars, utilVars>>

ChunkIdle ==
    /\ transcript_text = << >>
    /\ max_chars = DEFAULT_MAX_CHARS
    /\ chunks = << >>
    /\ chunk_pc = "off"

\* no utility function is being called on its own
UtilIdle ==
    /\ util_pc = "off"
    /\ ex_input = << >>
    /\ ex_result = << >>
    /\ ex_consulted = 0
    /\ fmt_segments = << >>
    /\ fmt_result = << >>
    /\ ts_seconds = 0
    /\ ts_result = << >>

Init ==
    /\ dirExists \in BOOLEAN
    /\ files \in [VideoIds -> InitContents]
    /\ dirExists = FALSE => \A id \in VideoIds : files[id] = ABSENT
    /\ files[ID2] = ABSENT
    /\ now = Epoch
    /\ runs = 0
    /\ proc = [p \in Procs |-> Idle]
    /\ ChunkIdle
    /\ UtilIdle

\* Invocations run one after the other: process 1 runs them all
Next ==
    \/ Start(1)
    \/ GetRead(1)
    \/ GetRemove(1)
    \/ FetchEnglish(1)
    \/ FetchList(1)
    \/ PutMkdir(1)
    \/ PutOpen(1)
    \/ PutWrite(1)
    \/ Output(1)

Spec == Init /\ [][Next]_vars

-----------------------------------------------------------------------------
(* The cache store on its own: save_to_cache called on whatever entry is   *)
(* there, a valid one included, and get_cached_transcript called next      *)

CacheInit ==
    /\ dirExists \in BOOLEAN
    /\ files \in [VideoIds -> InitContents]
    /\ dirExists = FALSE => \A id \in VideoIds : files[id] = ABSENT
    /\ files[ID2] = ABSENT
    /\ now = Epoch
    /\ runs = 0
    /\ proc = [p \in Procs |-> Idle]
    /\ ChunkIdle
    /\ UtilIdle

\* save_to_cache(video_id, segments) is called; lines 83-89 are the steps
\* PutMkdir, PutOpen and PutWrite
CallPut(p) ==
    /\ proc[p].pc = "idle"
    /\ \E id \in VideoIds, segments \in EnglishSegLists :
         proc' = [proc EXCEPT ![p] =
             [Idle EXCEPT !.pc = "put_mkdir", !.input = "ok", !.video_id = id,
                          !.fetched = "None", !.fetched_segments = segments,
                          !.transcript_segments = PyList(segments)]]
    /\ UNCHANGED <<files, dirExists, now, runs, chunkVars, utilVars>>

\* get_cached_transcript(video_id) is called once save_to_cache returned, no
\* time having passed; lines 62-78 are the steps GetRead and GetRemove
CallGet(p) ==
    /\ proc[p].pc = "output"
    /\ proc[p].got = NotCalled
    /\ proc' = [proc EXCEPT ![p].pc = "get"]
    /\ UNCHANGED <<files, dirExists, now, runs, chunkVars, utilVars>>

CacheNext ==
    \/ CallPut(1)
    \/ PutMkdir(1)
    \/ PutOpen(1)
    \/ PutWrite(1)
    \/ CallGet(1)
    \/ GetRead(1)
    \/ GetRemove(1)

CacheSpec == CacheInit /\ [][CacheNext]_vars

-----------------------------------------------------------------------------
(* Two invocations of main() for the same video that overlap in time.  The
   operating system schedules them, so their steps interleave freely; each
   step is one of the file-system or provider calls of main(). *)

\* the entry of an earlier invocation, older than the TTL when the two start
StaleEntry == JsonDump(ID2, Epoch - CACHE_TTL_SECONDS - 1, <<SegHi>>)

CONC_ARGV == Arg(HTTPS \o WWW \o WATCH_LITERAL \o V_EQUALS \o ID2)

ConcInit ==
    /\ dirExists \in BOOLEAN
    /\ files \in [VideoIds -> {ABSENT, StaleEntry}]
    /\ dirExists = FALSE => \A id \in VideoIds : files[id] = ABSENT
    /\ files[ID1] = ABSENT
    /\ now = Epoch
    /\ runs = 0
    /\ proc = [p \in Procs |-> Idle]
    /\ ChunkIdle
    /\ UtilIdle

\* lines 159-171 of one of the two invocations; both are given the same video
ConcStart(p) ==
    /\ proc[p].pc = "idle"
    /\ runs' = runs + 1
    /\ LET r == extract_video_id(CONC_ARGV.s)
       IN  proc' = [proc EXCEPT ![p] =
               IF r.raised = "ValueError"
               THEN Exit1([Idle EXCEPT !.input = r.raised], "error", r.msg)
               ELSE [Idle EXCEPT !.pc = "get", !.input = "ok", !.video_id = r.value]]
    /\ UNCHANGED <<files, dirExists, now, chunkVars, utilVars>>

\* time.time() moves on between the steps of the two invocations
ConcTick ==
    /\ now < Epoch + MaxTicks
    /\ now' = now + 1
    /\ UNCHANGED <<files, dirExists, runs, proc, chunkVars, utilVars>>

ConcStep(p) ==
    \/ ConcStart(p)
    \/ GetRead(p)
    \/ GetRemove(p)
    \/ FetchEnglish(p)
    \/ FetchList(p)
    \/ PutMkdir(p)
    \/ PutOpen(p)
    \/ PutWrite(p)
    \/ Output(p)

ConcNext ==
    \/ ConcTick
    \/ \E p \in Procs : ConcStep(p)

ConcSpec == ConcInit /\ [][ConcNext]_vars

-----
(* The chunker on its own: chunk_transcript applied to every text over a   *)
(* small alphabet, with every small max_chars                              *)

Alphabet == {"a", "b", NL}

Texts == SeqsUpTo(Alphabet, MaxTextLen)

PipelineIdle ==
    /\ files = [id \in VideoIds |-> ABSENT]
    /\ dirExists = FALSE
    /\ now = Epoch
    /\ runs = 0
    /\ proc = [p \in Procs |-> Idle]

ChunkInit ==
    /\ transcript_text \in Texts
    /\ max_chars \in 1..MaxChars
    /\ chunks = << >>
    /\ chunk_pc = "call"
    /\ PipelineIdle
    /\ UtilIdle

CallChunk ==
    /\ chunk_pc = "call"
    /\ chunks' = chunk_transcript(transcript_text, max_chars)
    /\ chunk_pc' = "ret"
    /\ UNCHANGED <<transcript_text, max_chars, pipeVars, utilVars>>

ChunkNext == CallChunk

ChunkSpec == ChunkInit /\ [][ChunkNext]_vars

-----------------------------------------------------------------------------
(* The extractor on its own: extract_video_id applied to URLs of every     *)
(* supported shape, to URLs without an ID and to strings of no shape       *)

HTTP == <<"h", "t", "t", "p", ":", "/", "/">>

Shapes == {"watch", "short", "shorts", "embed", "live"}

ShapeLiteral(shape) ==
    CASE shape = "watch" -> WATCH_LITERAL
      [] shape = "short" -> SHORT_LITERAL
      [] shape = "shorts" -> SHORTS_LITERAL
      [] shape = "embed" -> EMBED_LITERAL
      [] shape = "live" -> LIVE_LITERAL

Schemes == {<< >>, HTTPS, HTTP}
Hosts == {<< >>, WWW}

\* whitespace around the argument: <<leading, trailing>>
Paddings == {<< << >>, << >> >>, << <<" ">>, <<"\n">> >>, << <<"\t", " ">>, << >> >>}

OtherId(id) == IF id = ID1 THEN ID2 ELSE ID1

T_PARAM == <<"t", "=", "5">>
LIST_PARAM == <<"l", "i", "s", "t", "=", "R", "D", "1">>
\* rv names the video a mix was started from
RV_EQUALS == <<"r", "v", "=">>

\* query parameters of a watch URL in front of the v parameter
ParamsBeforeId == {<< >>, T_PARAM \o <<"&">>}

\* what may follow the ID: nothing, or extra query parameters
ParamsAfterId(shape, id) ==
    LET sep == IF shape = "watch" THEN <<"&">> ELSE <<"?">>
    IN  {<< >>, sep \o T_PARAM} \cup
        (IF shape = "watch"
         THEN {sep \o LIST_PARAM \o <<"&">> \o RV_EQUALS \o OtherId(id)}
         ELSE {sep \o LIST_PARAM \o <<"&">> \o T_PARAM})

\* an argument of extract_video_id and how it was put together
ExInput(kind, shape, id, s) == [kind |-> kind, shape |-> shape, id |-> id, s |-> s]

BareInputs ==
    {ExInput("valid", "bare", id, pad[1] \o id \o pad[2]) :
        id \in VideoIds, pad \in Paddings}

UrlInputs ==
    UNION {
        {ExInput("valid", shape, id,
                 pad[1] \o scheme \o host \o ShapeLiteral(shape)
                        \o (IF shape = "watch" THEN before \o V_EQUALS ELSE << >>)
                        \o id \o after \o pad[2]) :
            scheme \in Schemes, host \in Hosts, pad \in Paddings,
            before \in (IF shape = "watch" THEN ParamsBeforeId ELSE {<< >>}),
            after \in ParamsAfterId(shape, id)} :
        shape \in Shapes, id \in VideoIds}

\* what stands where the ID belongs in a URL without one
MissingIdRests(shape) ==
    IF shape = "watch"
    THEN {<< >>, V_EQUALS, T_PARAM, V_EQUALS \o <<"&">> \o T_PARAM,
          LIST_PARAM \o <<"&">> \o RV_EQUALS \o ID2}
    ELSE {<< >>, <<"?">> \o T_PARAM, <<"/">>}

MissingIdInputs ==
    UNION {
        {ExInput("missing_id", shape, << >>,
                 scheme \o host \o ShapeLiteral(shape) \o rest) :
            scheme \in Schemes, host \in Hosts, rest \in MissingIdRests(shape)} :
        shape \in Shapes}

EXAMPLE_PREFIX ==
    <<"h", "t", "t", "p", "s", ":", "/", "/", "e", "x", "a", "m", "p", "l", "e",
      ".", "c", "o", "m", "/">>

\* strings with none of the URL shapes
NoShapeStrings ==
    {<< >>, <<"a", "b", "c">>, <<" ", "a", "b", "c", "\n">>,
     SubSeq(ID1, 1, ID_LENGTH - 1), ID1 \o <<"Q">>, ID1 \o <<" ">> \o ID2,
     EXAMPLE_PREFIX \o ID1, EXAMPLE_PREFIX,
     SubSeq(ID1, 1, ID_LENGTH - 1) \o <<"!">>, <<"?">> \o SubSeq(ID2, 2, ID_LENGTH)}

NoShapeInputs == {ExInput("no_shape", "none", << >>, str) : str \in NoShapeStrings}

ExInputs == BareInputs \cup UrlInputs \cup MissingIdInputs \cup NoShapeInputs

\* lines 53-60: how many URL patterns the call searches
PatternsConsulted(url_or_id) ==
    LET text == Strip(url_or_id)
        hits == {k \in 1..NUM_PATTERNS : YOUTUBE_PATTERNS(k, text).found}
    IN  IF BareIdMatch(text) THEN 0
        ELSE IF hits # {} THEN MinOf(hits)
        ELSE NUM_PATTERNS

ExtractInit ==
    /\ util_pc = "call"
    /\ ex_input \in ExInputs
    /\ ex_result = << >>
    /\ ex_consulted = 0
    /\ fmt_segments = << >>
    /\ fmt_result = << >>
    /\ ts_seconds = 0
    /\ ts_result = << >>
    /\ PipelineIdle
    /\ ChunkIdle

CallExtract ==
    /\ util_pc = "call"
    /\ ex_result' = extract_video_id(ex_input.s)
    /\ ex_consulted' = PatternsConsulted(ex_input.s)
    /\ util_pc' = "ret"
    /\ UNCHANGED <<ex_input, fmt_segments, fmt_result, ts_seconds, ts_result,
                   pipeVars, chunkVars>>

ExtractNext == CallExtract

ExtractSpec == ExtractInit /\ [][ExtractNext]_vars

-----------------------------------------------------------------------------
(* The formatter on its own: format_transcript applied to short segment    *)
(* lists, and seconds_to_timestamp applied to offsets around the minute    *)
(* and hour boundaries                                                     *)

\* caption texts: plain, padded, empty, blank, and a caption of two lines
FmtTexts == {<<"h", "i">>, <<" ", "y", "o", " ">>, << >>, <<" ", "\n">>,
             <<"a", "\n", "b">>}

FmtStarts == {65000, 3661999}

FmtSegs == {Seg(text, start, 1000) : text \in FmtTexts, start \in FmtStarts}

FormatInit ==
    /\ util_pc = "call"
    /\ fmt_segments \in SeqsUpTo(FmtSegs, MaxSegments)
    /\ fmt_result = << >>
    /\ ex_input = << >>
    /\ ex_result = << >>
    /\ ex_consulted = 0
    /\ ts_seconds = 0
    /\ ts_result = << >>
    /\ PipelineIdle
    /\ ChunkIdle

CallFormat ==
    /\ util_pc = "call"
    /\ fmt_result' = format_transcript(fmt_segments)
    /\ util_pc' = "ret"
    /\ UNCHANGED <<fmt_segments, ex_input, ex_result, ex_consulted,
                   ts_seconds, ts_result, pipeVars, chunkVars>>

FormatNext == CallFormat

FormatSpec == FormatInit /\ [][FormatNext]_vars

\* start offsets in milliseconds: hours, minutes, seconds and a fraction
TsOffsets ==
    {h * 3600000 + m * 60000 + sec * 1000 + f :
        h \in {0, 1, 10, 100}, m \in {0, 1, 59}, sec \in {0, 1, 5, 59},
        f \in {0, 500, 999}}

TimestampInit ==
    /\ util_pc = "call"
    /\ ts_seconds \in TsOffsets
    /\ ts_result = << >>
    /\ ex_input = << >>
    /\ ex_result = << >>
    /\ ex_consulted = 0
    /\ fmt_segments = << >>
    /\ fmt_result = << >>
    /\ PipelineIdle
    /\ ChunkIdle

CallTimestamp ==
    /\ util_pc = "call"
    /\ ts_result' = seconds_to_timestamp(ts_seconds)
    /\ util_pc' = "ret"
    /\ UNCHANGED <<ts_seconds, ex_input, ex_result, ex_consulted,
                   fmt_segments, fmt_result, pipeVars, chunkVars>>

TimestampNext == CallTimestamp

TimestampSpec == TimestampInit /\ [][TimestampNext]_vars

-----------------------------------------------------------------------------
(* Claims about the chunker, checked under ChunkSpec *)

\* the lines of all chunks, in order
RECURSIVE LinesOf(_)
LinesOf(cs) == IF cs = << >> THEN << >> ELSE Split(Head(cs)) \o LinesOf(Tail(cs))

\* C9: for a non-empty text and max_chars >= 1 the chunks lose, duplicate
\* and reorder nothing: the lines of the chunks, concatenated in order, are
\* the lines of the text exactly once, so every chunk is the newline-join
\* of a contiguous slice of the text's lines and no line is cut.
C9_ChunksPreserveLines ==
    (chunk_pc = "ret" /\ transcript_text # << >>)
        => /\ LinesOf(chunks) = Split(transcript_text)
           /\ Join(chunks) = transcript_text

\* a text that is split into several chunks, one of several lines
C9_Witness ==
    /\ chunk_pc = "ret"
    /\ Len(chunks) >= 2
    /\ \E i \in DOMAIN chunks : Len(Split(chunks[i])) >= 2

\* C10: a chunk is at most max_chars long unless it is a single line that
\* is itself longer than max_chars; the result is empty only for the empty
\* text, and is the text alone whenever the text fits in max_chars.
C10_ChunkSizes ==
    chunk_pc = "ret"
        => /\ \A i \in DOMAIN chunks :
                \/ Len(chunks[i]) <= max_chars
                \/ Len(Split(chunks[i])) = 1 /\ Len(chunks[i]) > max_chars
           /\ (chunks = << >>) <=> (transcript_text = << >>)
           /\ (transcript_text # << >> /\ Len(transcript_text) <= max_chars)
                 => chunks = <<transcript_text>>

\* a split where one chunk is an oversized single line and another chunk
\* of several lines fills max_chars as far as the next line allows
C10_Witness ==
    /\ chunk_pc = "ret"
    /\ \E i \in DOMAIN chunks : Len(chunks[i]) > max_chars
    /\ \E i \in DOMAIN chunks : Len(Split(chunks[i])) >= 2

-----------------------------------------------------------------------------
(* Claims about the fetcher, the cache store and the CLI, checked under Spec *)

Has(trace, e) == \E i \in DOMAIN trace : trace[i] = e
Pos(trace, e) == MinOf({i \in DOMAIN trace : trace[i] = e})
Count(trace, e) == Cardinality({i \in DOMAIN trace : trace[i] = e})

\* the failure category a message of fetch_transcript stands for
Reason(msg) ==
    CASE msg = MSG_DISABLED -> "Disabled"
      [] msg = MSG_UNAVAILABLE -> "Unavailable"
      [] msg = MSG_INVALID_ID -> "InvalidId"
      [] msg = MSG_BLOCKED -> "Blocked"
      [] msg = MSG_NO_CAPTIONS -> "NoCaptions"
      [] OTHER -> "none"

\* the category the claim gives each terminal signal of the English request
TerminalSignals ==
    [TranscriptsDisabled |-> "Disabled", VideoUnavailable |-> "Unavailable",
     InvalidVideoId |-> "InvalidId", RequestBlocked |-> "Blocked",
     IpBlocked |-> "Blocked"]

\* C1: the list operation is invoked only after the English request failed
\* with language-not-found; an English success is returned without any
\* listing; transcripts-disabled, video-unavailable, invalid-id and
\* request-blocked fail the fetch at once with the matching category and
\* without any listing.
C1_ListOnlyAfterLanguageNotFound ==
    \A p \in Procs :
        LET st == proc[p]
        IN  /\ Has(st.trace, "list")
                => /\ st.english.sig = "NoTranscriptFound"
                   /\ Pos(st.trace, "fetch_en") < Pos(st.trace, "list")
            /\ st.english.sig = "ok"
                => /\ st.fetched = "None"
                   /\ st.fetched_segments = st.english.data
                   /\ ~Has(st.trace, "list")
            /\ st.english.sig \in DOMAIN TerminalSignals
                => /\ st.fetched = "RuntimeError"
                   /\ Reason(st.fetched_msg) = TerminalSignals[st.english.sig]
                   /\ ~Has(st.trace, "list")
                   /\ st.pc = "done"

\* an English request that was blocked, and a fetch that failed at once
C1_Witness ==
    \E p \in Procs :
        /\ proc[p].english.sig = "IpBlocked"
        /\ proc[p].trace = <<"get", "fetch_en">>
        /\ Reason(proc[p].fetched_msg) = "Blocked"

\* C2: after language-not-found the fetch lists the transcripts and returns
\* the segments of the first transcript listed, fetching no other one; if
\* the listing fails, the first transcript's fetch fails with whatever
\* signal, or the listing is empty, the fetch fails with NoCaptions.
C2_FallbackTakesFirstListed ==
    \A p \in Procs :
        LET st == proc[p]
        IN  st.english.sig = "NoTranscriptFound"
                => /\ st.pc = "fetch_list" \/ Has(st.trace, "list")
                   /\ Has(st.trace, "list") =>
                        IF st.listing.sig = "ok" /\ st.listing.n >= 1
                                                 /\ st.listing.first.sig = "ok"
                        THEN /\ st.fetched = "None"
                             /\ st.fetched_segments = st.listing.first.data
                             /\ Count(st.trace, "fetch_1") = 1
                             /\ Pos(st.trace, "fetch_1") = Pos(st.trace, "list") + 1
                        ELSE /\ st.fetched = "RuntimeError"
                             /\ Reason(st.fetched_msg) = "NoCaptions"

\* a listing of several transcripts whose first one answers with the
\* blocked signal: NoCaptions, and no later transcript is tried
C2_Witness ==
    \E p \in Procs :
        /\ proc[p].listing.sig = "ok"
        /\ proc[p].listing.n >= 2
        /\ proc[p].listing.first.sig = "RequestBlocked"
        /\ Reason(proc[p].fetched_msg) = "NoCaptions"
        /\ Count(proc[p].trace, "fetch_1") = 1

\* C3: in every invocation the cache is read first, the provider is
\* contacted only after get returned absent, put happens only after a
\* successful fetch and stores exactly the fetched segments; an entry file
\* is created or overwritten only by an invocation whose fetch succeeded.
C3_Order ==
    \A p \in Procs :
        LET st == proc[p]
        IN  /\ st.trace # << >> => st.trace[1] = "get"
            /\ Has(st.trace, "fetch_en") => st.got = "miss"
            /\ Has(st.trace, "put")
                => /\ st.fetched = "None"
                   /\ Pos(st.trace, "put") = Len(st.trace)
            /\ st.put = "written"
                => /\ WellFormed(files[st.video_id])
                   /\ StoredSegments(files[st.video_id]) = PyList(st.fetched_segments)

C3_WritesOnlyAfterFetch ==
    \A id \in VideoIds :
        (files'[id] # files[id] /\ files'[id] # ABSENT)
            => \E p \in Procs : proc[p].video_id = id /\ proc[p].fetched = "None"

C3_CacheThenFetchThenPut == []C3_Order /\ [][C3_WritesOnlyAfterFetch]_vars

\* a failed fetch that leaves the (corrupt) entry it found as it was
C3_Witness ==
    \E p \in Procs :
        /\ proc[p].fetched = "RuntimeError"
        /\ proc[p].read # ABSENT
        /\ files[proc[p].video_id] = proc[p].read

\* C4: for a readable well-formed entry, get returns the stored segments
\* exactly when now - cached_at <= 604800; when the age is larger it
\* returns absent and, the removal not being refused by the file system,
\* the entry file is gone: no entry is left for a later get.
C4_ExpiryAtTTL ==
    \A p \in Procs :
        LET st == proc[p]
            age == st.read_at - CachedAt(st.read)
        IN  (st.got # NotCalled /\ WellFormed(st.read) /\ "read" \notin st.faults)
                => /\ (age <= 604800) <=> (st.got = "hit")
                   /\ st.got = "hit" => st.transcript_segments = StoredSegments(st.read)
                   /\ age > 604800
                        => /\ st.got = "miss"
                           /\ ("remove" \notin st.faults /\ ~Has(st.trace, "put"))
                                 => files[st.video_id] = ABSENT

\* an entry one second past the TTL, removed by the get that found it
C4_Witness ==
    \E p \in Procs :
        /\ proc[p].got = "miss"
        /\ WellFormed(proc[p].read)
        /\ proc[p].read_at - CachedAt(proc[p].read) = 604801
        /\ files[proc[p].video_id] = ABSENT

\* C5: round trip: get(id) called immediately after a put(id, segs) that
\* wrote the entry returns segs, whatever entry (none, valid, expired or
\* corrupt) the put replaced; the same holds of the entry a put of main
\* leaves.
C5_RoundTrip ==
    \A p \in Procs :
        LET st == proc[p]
            g == get_cached_transcript(files[st.video_id], now, FALSE)
        IN  st.put = "written"
                => /\ st.got = NotCalled \/ Pos(st.trace, "get") < Pos(st.trace, "put")
                        => /\ g.raised = "None"
                           /\ ~g.expired
                           /\ g.value = PyList(st.fetched_segments)
                   /\ (st.trace = <<"put", "get">> /\ st.pc # "get_remove"
                                                   /\ "read" \notin st.faults)
                        => /\ st.got = "hit"
                           /\ st.transcript_segments = PyList(st.fetched_segments)

\* a put that replaced a valid entry holding other segments, and the get
\* that followed it
C5_Witness ==
    \E p \in Procs :
        /\ proc[p].put = "written"
        /\ proc[p].put_over = "valid"
        /\ proc[p].fetched_segments = <<SegHi>>
        /\ proc[p].trace = <<"put", "get">>
        /\ proc[p].got = "hit"

\* what main prints and returns once it holds transcript_segments
Outcome(st) == <<st.exit, st.stdout, st.stderr>>
Unprinted(st) == [st EXCEPT !.exit = -1, !.stdout = NoOutput, !.stderr = NoMessage]

\* C6: whenever the fetch succeeded, a failure inside put (creating the
\* directory, opening or writing the file) is swallowed: the invocation
\* ends as formatting, chunking and printing the fetched transcript ends.
C6_WriteFailureNeverFails ==
    \A p \in Procs :
        LET st == proc[p]
        IN  (st.pc = "done" /\ st.fetched = "None")
                => Outcome(st) = Outcome(main_output(Unprinted(st)))

\* C7: an entry file that exists but is unreadable or corrupt makes get
\* return absent without raising, and the pipeline goes on to the provider.
C7_ReadFailureIsMiss ==
    \A p \in Procs :
        LET st == proc[p]
        IN  (st.pc # "get" /\ st.pc # "get_remove" /\ Has(st.trace, "get")
                /\ st.read # ABSENT
                /\ ("read" \in st.faults \/ ~WellFormed(st.read)))
                => /\ st.got = "miss"
                   /\ st.pc = "fetch" \/ Has(st.trace, "fetch_en")

\* the failure category an invocation ran into, "none" if none
Failure(st) ==
    CASE st.input \in {"missing", "ValueError"} -> "InvalidInput"
      [] st.got \notin {NotCalled, "hit", "miss"} -> "Unexpected"
      [] st.fetched = "RuntimeError" -> Reason(st.fetched_msg)
      [] st.fetched \notin {NotCalled, "None", "RuntimeError"} -> "Unexpected"
      [] st.put \notin {NotCalled, "written", "swallowed"} -> "Unexpected"
      [] OTHER -> LET formatted == FormatCall(st.transcript_segments)
                  IN  IF formatted.raised # "None" THEN "Crash"
                      ELSE IF formatted.value = << >> THEN "EmptyTranscript"
                      ELSE "none"

\* C8: an invocation ends either with exit code 0 and the transcript (plain
\* text or chunk bundle) on standard output, or with exit code 1, a message
\* on standard error and nothing on standard output; every failure
\* category ends the second way.
C8_TwoOutcomes ==
    \A p \in Procs :
        LET st == proc[p]
            formatted == FormatCall(st.transcript_segments).value
        IN  /\ st.pc # "done" => Outcome(st) = <<-1, NoOutput, NoMessage>>
            /\ st.pc = "done"
                => \/ /\ st.exit = 0
                      /\ st.stderr = NoMessage
                      /\ formatted # << >>
                      /\ \/ st.stdout = PlainText(formatted)
                         \/ /\ st.stdout.shape = "json"
                            /\ st.stdout.total_chunks = Len(st.stdout.chunks)
                            /\ Join(st.stdout.chunks) = formatted
                   \/ /\ st.exit = 1
                      /\ st.stderr # NoMessage
                      /\ st.stdout = NoOutput
            /\ st.pc = "done" => (st.exit = 1 <=> Failure(st) # "none")

\* a transcript that was fetched but formats to nothing: exit code 1
C8_Witness ==
    \E p \in Procs :
        /\ proc[p].pc = "done"
        /\ proc[p].fetched = "None"
        /\ Failure(proc[p]) = "EmptyTranscript"
        /\ proc[p].exit = 1

-----------------------------------------------------------------------------
(* Claims about corrupt entries, checked under Spec *)

\* an entry file that exists and holds no CacheEntry
Corrupt(content) == content # ABSENT /\ ~WellFormed(content)

\* a JSON object whose cached_at, 0 when the member is missing, is a number
\* more than the TTL before t
AgedObject(content, t) ==
    /\ content.kind = "text" /\ content.json /\ content.object
    /\ LET d == ObjectToDict(content.members).d
       IN  \/ "cached_at" \notin DOMAIN d /\ t > CACHE_TTL_SECONDS
           \/ /\ "cached_at" \in DOMAIN d
              /\ d["cached_at"].t = "num"
              /\ t - d["cached_at"].n > CACHE_TTL_SECONDS

-----------------------------------------------------------------------------
(* Claims about an invocation that follows one that stored its transcript,
   checked under Spec *)

\* the provider was not contacted
NoFetch(st) ==
    /\ st.english = NotAsked /\ st.listing = NotListed
    /\ ~Has(st.trace, "fetch_en") /\ ~Has(st.trace, "fetch_list")

\* the invocation follows one that fetched and stored the transcript of the
\* same video
FollowsWriter(st) == st.earlier.wrote /\ st.earlier.video_id = st.video_id

\* C18: an invocation served from the entry the invocation before it wrote
\* prints what that invocation printed, in the same shape, exits with the
\* same code, and does not contact the provider.
C18_HitIsTransparent ==
    \A p \in Procs :
        LET st == proc[p]
            e == st.earlier
        IN  (FollowsWriter(st) /\ st.got = "hit")
                => /\ st.read = save_to_cache(st.video_id, StoredSegments(st.read).l, e.at)
                   /\ NoFetch(st)
                   /\ ~Has(st.trace, "put")
                   /\ st.pc = "done"
                        => /\ st.stdout = e.stdout
                           /\ st.stderr = e.stderr
                           /\ st.exit = e.exit

\* a transcript of several chunks printed again from the cache, one week after
\* it was stored
C18_Witness ==
    \E p \in Procs :
        /\ proc[p].pc = "done"
        /\ FollowsWriter(proc[p])
        /\ proc[p].got = "hit"
        /\ proc[p].read_at - proc[p].earlier.at = CACHE_TTL_SECONDS
        /\ proc[p].exit = 0
        /\ proc[p].stdout.shape = "json"
        /\ proc[p].stdout.total_chunks > 1

EMPTY_MESSAGE == Message("error", "Transcript was fetched but appears to be empty.")

\* C19: an invocation whose fetch succeeded and whose transcript formats to
\* the empty string has stored the fetched segments, unless opening or
\* writing the file failed, when it reports EmptyTranscript; and an
\* invocation for the same video that follows it within the TTL and can read
\* the entry is a hit that fails with EmptyTranscript too, the provider not
\* being contacted.
C19_EmptyTranscriptIsCached ==
    \A p \in Procs :
        LET st == proc[p]
            e == st.earlier
        IN  /\ (st.pc = "done" /\ st.fetched = "None" /\ Failure(st) = "EmptyTranscript")
                => /\ st.stderr = EMPTY_MESSAGE /\ st.exit = 1
                   /\ Has(st.trace, "put")
                   /\ st.faults \cap {"open", "write"} = {}
                        => /\ st.put = "written"
                           /\ WellFormed(files[st.video_id])
                           /\ StoredSegments(files[st.video_id]) = PyList(st.fetched_segments)
            /\ (/\ FollowsWriter(st) /\ e.stderr = EMPTY_MESSAGE
                /\ st.got # NotCalled /\ "read" \notin st.faults
                /\ st.read_at - e.at <= CACHE_TTL_SECONDS)
                => /\ st.got = "hit"
                   /\ NoFetch(st)
                   /\ st.pc = "done"
                        => /\ Failure(st) = "EmptyTranscript"
                           /\ st.stderr = EMPTY_MESSAGE
                           /\ st.exit = 1

\* segments of blank text fetched and stored, then met again by the next
\* invocation, which fails on them without asking the provider
C19_Witness ==
    \E p \in Procs :
        /\ proc[p].pc = "done"
        /\ FollowsWriter(proc[p])
        /\ proc[p].earlier.stderr = EMPTY_MESSAGE
        /\ proc[p].got = "hit"
        /\ proc[p].transcript_segments = PyList(<<SegBlank, SegBlank>>)
        /\ proc[p].exit = 1
        /\ proc[p].english = NotAsked

-----------------------------------------------------------------------------
(* Claims about overlapping invocations, checked under ConcSpec *)

Writers(id) == {p \in Procs : proc[p].video_id = id /\ proc[p].put = "written"}

Settled == \A p \in Procs : proc[p].pc = "done" /\ proc[p].faults = {}

\* C16: once two invocations that both stored a transcript for the same video
\* have finished, the entry file is absent or holds the complete entry of
\* one of them
C16_EntryReplacedWholesale ==
    \A id \in VideoIds :
        (Settled /\ Writers(id) = Procs)
            => \/ files[id] = ABSENT
               \/ /\ EntryKind(files[id], now) = "valid"
                  /\ \E p \in Procs :
                        StoredSegments(files[id]) = PyList(proc[p].fetched_segments)

\* C17: with no I/O failure in either invocation, the expiry branch removes
\* only the expired entry it has just read
C17_RemovesWhatItRead ==
    [][\A p \in Procs :
          (/\ GetRemove(p)
           /\ files'[proc[p].video_id] # files[proc[p].video_id]
           /\ \A q \in Procs : proc'[q].faults = {})
              => /\ files[proc[p].video_id] = proc[p].read
                 /\ EntryKind(files[proc[p].video_id], now) = "expired"]_vars

-----------------------------------------------------------------------------
(* Claims about the extractor, checked under ExtractSpec *)

\* s is a VideoId: exactly 11 characters from [A-Za-z0-9_-]
IsVideoId(s) == Len(s) = ID_LENGTH /\ \A i \in DOMAIN s : s[i] \in IdChars

\* C11: for every valid ID and each supported URL shape, with or without
\* extra query parameters after the ID and with or without surrounding
\* whitespace, extract returns exactly that ID; for the bare ID extract is
\* the identity and no URL pattern is consulted.
C11_ExtractReturnsEmbeddedId ==
    (util_pc = "ret" /\ ex_input.kind = "valid")
        => /\ ex_result = Returns(ex_input.id)
           /\ ex_input.shape = "bare" => ex_consulted = 0

\* C12: extract either fails with ValueError (InvalidInput) or returns a
\* VideoId; it fails on every string with no URL shape whose trimmed form
\* is not 11 characters long, and on every URL of a known shape whose ID
\* segment is missing.
C12_ExtractFailsOrReturnsVideoId ==
    util_pc = "ret"
        => /\ \/ ex_result.raised = "ValueError"
              \/ ex_result.raised = "None" /\ IsVideoId(ex_result.value)
           /\ (ex_input.kind = "no_shape" /\ Len(Strip(ex_input.s)) # ID_LENGTH)
                 => ex_result.raised = "ValueError"
           /\ ex_input.kind = "missing_id" => ex_result.raised = "ValueError"

-----------------------------------------------------------------------------
(* Claims about the formatter, checked under FormatSpec and TimestampSpec *)

\* the line the claim gives a segment: '[timestamp] trimmed-text'
LineOf(segment) ==
    <<"[">> \o seconds_to_timestamp(segment.start) \o <<"]", " ">> \o Strip(segment.text)

\* the segments whose trimmed text is non-empty, in input order
Surviving(segments) ==
    LET P == {i \in DOMAIN segments : Strip(segments[i].text) # << >>}
    IN  [k \in 1..Cardinality(P) |-> segments[KthSmallest(P, k)]]

\* C13: format(segments) has exactly one line per segment whose trimmed text
\* is non-empty, of the form '[timestamp] trimmed-text', in input order and
\* joined by single newlines; it is the empty string when no segment
\* survives.
C13_OneLinePerSegment ==
    util_pc = "ret"
        => LET kept == Surviving(fmt_segments)
           IN  IF kept = << >> THEN fmt_result = << >>
               ELSE Split(fmt_result) = [k \in DOMAIN kept |-> LineOf(kept[k])]

\* the fields of a timestamp, separated by ":"
TimestampFields(ts) ==
    LET P == {i \in 1..Len(ts) : ts[i] = ":"}
        n == Cardinality(P)
        cut(k) == IF k = 0 THEN 0
                  ELSE IF k = n + 1 THEN Len(ts) + 1
                  ELSE KthSmallest(P, k)
    IN  [k \in 1..(n + 1) |-> SubSeq(ts, cut(k - 1) + 1, cut(k) - 1)]

Digits == {Digit(d) : d \in 0..9}

\* the number a string of decimal digits denotes
RECURSIVE ParseNat(_)
ParseNat(str) ==
    IF str = << >> THEN 0
    ELSE 10 * ParseNat(SubSeq(str, 1, Len(str) - 1))
         + (CHOOSE d \in 0..9 : Digit(d) = str[Len(str)])

\* C14: for a start offset s >= 0 the timestamp is computed from floor(s):
\* MM:SS, zero-padded, when floor(s) < 3600, and HH:MM:SS, zero-padded with
\* minutes and seconds below 60, when floor(s) >= 3600; 65 gives 01:05 and
\* 3661 gives 01:01:01; the sub-second part never rounds a timestamp up.
C14_TimestampFromFloor ==
    util_pc = "ret"
        => LET total == ts_seconds \div 1000
               f == TimestampFields(ts_result)
               v(k) == ParseNat(f[k])
           IN  /\ \A k \in DOMAIN f :
                     Len(f[k]) >= 2 /\ \A i \in DOMAIN f[k] : f[k][i] \in Digits
               /\ total < 3600
                     => /\ Len(f) = 2 /\ Len(f[1]) = 2 /\ Len(f[2]) = 2
                        /\ v(2) < 60
                        /\ 60 * v(1) + v(2) = total
               /\ total >= 3600
                     => /\ Len(f) = 3 /\ Len(f[2]) = 2 /\ Len(f[3]) = 2
                        /\ v(2) < 60 /\ v(3) < 60
                        /\ 3600 * v(1) + 60 * v(2) + v(3) = total
               /\ total = 65 => ts_result = <<"0", "1", ":", "0", "5">>
               /\ total = 3661
                     => ts_result = <<"0", "1", ":", "0", "1", ":", "0", "1">>

\* an offset one millisecond short of 01:01:02, stamped 01:01:01
C14_Witness ==
    /\ util_pc = "ret"
    /\ ts_seconds = 3661999
    /\ ts_result = <<"0", "1", ":", "0", "1", ":", "0", "1">>

====
